---- MODULE Spec2Model ----
(***************************************************************************)
(* Model of gns3/local_config.py (class LocalConfig): the in-memory        *)
(* settings document, the JSON files it is read from and written to, the   *)
(* recorded modification timestamp, the polling tick and the legacy        *)
(* migration.                                                              *)
(*                                                                         *)
(* Python values are modelled as follows.  A dict is a function whose      *)
(* domain is its set of keys (the empty dict is << >>).  Every non-dict    *)
(* value v is wrapped as [scalar |-> v], so that a value is a dict exactly *)
(* when it has no "scalar" key (isinstance(value, dict)).  A string that   *)
(* the code parses (a version) is a sequence of character codes: the       *)
(* digits 0..9 stand for themselves and Dot for ".".                       *)
(***************************************************************************)
EXTENDS Integers, Sequences, FiniteSets, TLC

VARIABLES
    settings,             \* self._settings
    config_file,          \* self._config_file
    last_config_changed,  \* self._last_config_changed (Unset: attribute never assigned)
    instance,             \* LocalConfig._instance: "none" or "ready"
    files,                \* the file system: path -> file
    now,                  \* the clock that stamps st_mtime
    op,                   \* the last step (an operation of the store or of its environment) and its outcome
    loaded,               \* the <<section, defaults>> that loadSectionSettings has filled
    mig_doc,              \* self._settings while _migrateOldConfig is exercised
    mig_in,               \* the document _migrateOldConfig was first given
    mig_runs,             \* how many times _migrateOldConfig has been applied
    mig_raised,           \* the exception of the last application ("none" if none)
    platform,             \* sys.platform: "posix" or "win"
    wpc,                  \* where _writeConfig stands while its file operations are followed one by one
    w_prev,               \* the text at the config path when the running _writeConfig began
    seen,                 \* what the last reader of the config path found there
    rt_before,            \* the document before the last _writeConfig, and how that write ended
    init_runs,            \* how many times __init__ has run while the calls of instance() are followed
    first_path,           \* the config file path the first call of instance() resolved ("none" before it)
    hub_ports,            \* EthernetHub._ports: the list of the ports of the hub
    hub_settings,         \* EthernetHub._settings: name and ports
    hub_op                \* the last callback of the hub and its outcome

storeVars == <<settings, config_file, last_config_changed, instance, files, now, op, loaded>>
migVars == <<mig_doc, mig_in, mig_runs, mig_raised>>
writeVars == <<platform, wpc, w_prev, seen>>
\* what the operations of the store taken as single steps leave alone
callVars == <<init_runs, first_path>>
\* what __init__ leaves alone besides the store
hubVars == <<hub_ports, hub_settings, hub_op>>
initFrame == <<migVars, writeVars, rt_before, hubVars>>
otherVars == <<migVars, writeVars, rt_before, callVars, hubVars>>
vars == <<settings, config_file, last_config_changed, instance, files, now, op, loaded,
          mig_doc, mig_in, mig_runs, mig_raised, platform, wpc, w_prev, seen, rt_before,
          init_runs, first_path, hub_ports, hub_settings, hub_op>>

-----------------------------------------------------------------------------
(* Bounds *)

MaxTime == 2          \* the clock runs over 0..MaxTime
MaxMigRuns == 2       \* applications of _migrateOldConfig in a row
MaxInitRuns == 2      \* runs of __init__ while the calls of instance() are followed
MaxResponsePorts == 2 \* entries of the ports list of a server response
MaxUpdatePorts == 2   \* entries of the ports list given to update()

-----------------------------------------------------------------------------
(* Python values *)

Scalar(v) == [scalar |-> v]

IsDict(x) == "scalar" \notin DOMAIN x

EmptyDict == << >>

\* a key that is not there, a call that returned nothing
Absent == [absent |-> TRUE]

RECURSIVE UpdateDeep(_, _)
\* an update that merges nested mappings key by key instead of replacing them
UpdateDeep(d, other) ==
    [k \in (DOMAIN d) \cup (DOMAIN other) |->
        IF k \notin DOMAIN other THEN d[k]
        ELSE IF k \in DOMAIN d /\ IsDict(d[k]) /\ IsDict(other[k])
             THEN UpdateDeep(d[k], other[k])
             ELSE other[k]]

\* dict.update(other): other's keys win, the rest is kept
Update(d, other) ==
    [k \in (DOMAIN d) \cup (DOMAIN other) |-> IF k \in DOMAIN other THEN other[k] ELSE d[k]]

\* d[key] = value
SetKey(d, key, value) ==
    [k \in (DOMAIN d) \cup {key} |-> IF k = key THEN value ELSE d[k]]

\* d.get(key, default)
Get(d, key, default) == IF key \in DOMAIN d THEN d[key] ELSE default

-----------------------------------------------------------------------------
(* Versions: pkg_resources.parse_version on dotted-numeric strings *)

Dot == 10

V139 == <<1, Dot, 3, Dot, 9>>
V140 == <<1, Dot, 4, Dot, 0>>
V14 == <<1, Dot, 4>>
V1310 == <<1, Dot, 3, Dot, 1, 0>>
V1100 == <<1, Dot, 1, 0, Dot, 0>>
V20 == <<2, Dot, 0>>

RECURSIVE SplitDots(_, _, _)
\* the dot-separated components of the string s, each read as a decimal number
SplitDots(s, cur, acc) ==
    IF s = << >> THEN Append(acc, cur)
    ELSE IF Head(s) = Dot THEN SplitDots(Tail(s), 0, Append(acc, cur))
    ELSE SplitDots(Tail(s), cur * 10 + Head(s), acc)

RECURSIVE StripZeros(_)
\* the release tuple without its trailing zeros (1.4 and 1.4.0 are equal)
StripZeros(t) ==
    IF t # << >> /\ t[Len(t)] = 0 THEN StripZeros(SubSeq(t, 1, Len(t) - 1)) ELSE t

\* A version read as its raw characters: comparing them is the lexical order.
parse_version_lexical(s) == s

parse_version(s) == StripZeros(SplitDots(s, 0, << >>))

RECURSIVE TupleLess(_, _)
\* Python's ordering of tuples of integers
TupleLess(a, b) ==
    IF b = << >> THEN FALSE
    ELSE IF a = << >> THEN TRUE
    ELSE IF Head(a) # Head(b) THEN Head(a) < Head(b)
    ELSE TupleLess(Tail(a), Tail(b))

\* the version that opens the 1.4 format ("1.4.0" on line 148)
CutoffVersion == V140

-----------------------------------------------------------------------------
(* _migrateOldConfig (lines 143-167) *)

OldServerPath == "/Applications/GNS3.app/Contents/Resources/server/Contents/MacOS/gns3server"
NewServerPath == "/Applications/GNS3.app/Contents/MacOS/gns3server"

\* line 148: the guard of the migration
NeedsMigration(s) ==
    \/ "version" \notin DOMAIN s
    \/ TupleLess(parse_version(s["version"].scalar), parse_version(CutoffVersion))

\* A migration that moves the legacy sections instead of copying them and
\* builds Servers afresh: a second run finds nothing to move.
MigrateByMoving(s) ==
    IF ~NeedsMigration(s) THEN [doc |-> s, raised |-> "none"]
    ELSE
        LET servers1 == IF "LocalServer" \in DOMAIN s
                        THEN [local_server |-> s["LocalServer"]]
                        ELSE EmptyDict
            rest == [k \in (DOMAIN s) \ {"LocalServer"} |-> s[k]]
        IN  [doc |-> SetKey(rest, "Servers", servers1), raised |-> "none"]

\* The document after _migrateOldConfig and the exception it ends with.
\* servers aliases self._settings["Servers"] when that key exists, so what was
\* stored into it before a KeyError on line 156 stays in the document.
_migrateOldConfig(s) ==
    IF ~NeedsMigration(s) THEN [doc |-> s, raised |-> "none"]
    ELSE
        LET hasLocal == "LocalServer" \in DOMAIN s
            servers0 == Get(s, "Servers", EmptyDict)
            servers1 == IF hasLocal
                        THEN SetKey(servers0, "local_server", s["LocalServer"])
                        ELSE servers0
            keyError == hasLocal /\ "path" \notin DOMAIN s["LocalServer"]
            servers2 == IF hasLocal /\ ~keyError /\ s["LocalServer"]["path"] = Scalar(OldServerPath)
                        THEN SetKey(servers1, "local_server",
                                    SetKey(s["LocalServer"], "path", Scalar(NewServerPath)))
                        ELSE servers1
            servers3 == IF "RemoteServers" \in DOMAIN s
                        THEN SetKey(servers2, "remote_servers", s["RemoteServers"])
                        ELSE servers2
            s1 == SetKey(s, "Servers", servers3)
            s2 == IF "GUI" \in DOMAIN s1
                  THEN SetKey(s1, "MainWindow",
                              SetKey(Get(s1, "MainWindow", EmptyDict), "hide_getting_started_dialog",
                                     Get(s1["GUI"], "hide_getting_started_dialog", Scalar(FALSE))))
                  ELSE s1
        IN  IF keyError
            THEN [doc |-> IF "Servers" \in DOMAIN s THEN SetKey(s, "Servers", servers1) ELSE s,
                  raised |-> "KeyError"]
            ELSE [doc |-> s2, raised |-> "none"]

-----------------------------------------------------------------------------
(* Files and JSON *)

Unset == -1

\* __version__ (imported on line 27): the version of the running application
AppVersion == <<1, Dot, 5, Dot, 0>>

RECURSIVE JsonDump(_)
\* json.dump of a dict: one entry <<key path, leaf>> per scalar or empty dict
JsonDump(d) ==
    UNION {IF ~IsDict(d[k]) \/ d[k] = EmptyDict
           THEN {<<(<<k>>), d[k]>>}
           ELSE {<<(<<k>>) \o e[1], e[2]>> : e \in JsonDump(d[k])} : k \in DOMAIN d}

RECURSIVE JsonLoad(_)
\* json.load of the text of a JSON object
JsonLoad(t) ==
    [k \in {e[1][1] : e \in t} |->
        LET sub == {e \in t : e[1][1] = k}
        IN  IF \E e \in sub : Len(e[1]) = 1
            THEN (CHOOSE e \in sub : Len(e[1]) = 1)[2]
            ELSE JsonLoad({<<Tail(e[1]), e[2]>> : e \in sub})]

\* A file is absent, or exists and is: "unreadable" (open fails),
\* "invalid" (not JSON), "number" (JSON, but not an object) or "doc".
NoFile == [kind |-> "absent", text |-> {}, mtime |-> 0]

DocFile(d, t) == [kind |-> "doc", text |-> JsonDump(d), mtime |-> t]

\* os.path.exists
Exists(f) == f.kind # "absent"

\* sys.platform.startswith("win") (lines 65, 74) tells the two families apart
Platforms == {"posix", "win"}

\* _writeConfig is not followed file operation by file operation
WriteIdle ==
    /\ platform = "posix"
    /\ wpc = "idle"
    /\ w_prev = {}
    /\ seen = NoFile

\* no _writeConfig has been made to read back, no instance() call followed
CallsIdle ==
    /\ rt_before = [doc |-> EmptyDict, wrote |-> "no"]
    /\ init_runs = 0
    /\ first_path = "none"

\* EthernetHub.__init__ (lines 36-42): no port, no name
HubIdle ==
    /\ hub_ports = << >>
    /\ hub_settings = [name |-> "", ports |-> << >>]
    /\ hub_op = [name |-> "none"]

-----------------------------------------------------------------------------
(* loadSectionSettings._copySettings (lines 262-274) *)

TypeError == [raised |-> "TypeError"]

RECURSIVE _copySettings(_, _)
\* The filled mapping, or TypeError: "name not in local" and "local[name] ="
\* need local to be a dict as soon as default has a key.
_copySettings(local, default) ==
    IF DOMAIN default = {} THEN local
    ELSE IF ~IsDict(local) THEN TypeError
    ELSE
        LET filled == [name \in DOMAIN default |->
                          IF name \notin DOMAIN local THEN default[name]
                          ELSE IF IsDict(default[name])
                               THEN _copySettings(local[name], default[name])
                               ELSE local[name]]
        IN  IF \E name \in DOMAIN default : filled[name] = TypeError
            THEN TypeError
            ELSE Update(local, filled)

\* loadSectionSettings (lines 251-279): the new document and the returned copy
loadSectionSettings(s, section, default_settings) ==
    LET filled == _copySettings(Get(s, section, EmptyDict), default_settings)
    IN  IF filled = TypeError
        THEN [settings |-> s, ret |-> Absent, raised |-> "TypeError"]
        ELSE [settings |-> SetKey(s, section, filled), ret |-> filled, raised |-> "none"]

-----------------------------------------------------------------------------
(* _readConfig (lines 169-188) and _writeConfig (lines 190-204) *)

\* lines 183-186: every section is loaded again with itself as the defaults
ReloadSections(s) ==
    [section \in DOMAIN s |->
        IF IsDict(s[section])
        THEN loadSectionSettings(s, section, s[section]).settings[section]
        ELSE s[section]]

\* _readConfig that forgets to record the modification time
ReadConfigNoTimestamp(config_path, s, last, fs) ==
    LET f == fs[config_path]
    IN  CASE f.kind \in {"absent", "unreadable", "invalid"} ->
                [settings |-> s, last |-> last, raised |-> "none"]
          [] f.kind = "number" ->
                [settings |-> s, last |-> last, raised |-> "TypeError"]
          [] f.kind = "doc" ->
                [settings |-> Update(s, JsonLoad(f.text)), last |-> last, raised |-> "none"]

\* _readConfig that catches ValueError only and starts from an empty document
ReadConfigUncaught(config_path, s, last, fs) ==
    LET f == fs[config_path]
    IN  CASE f.kind = "absent" ->
                [settings |-> s, last |-> last, raised |-> "FileNotFoundError"]
          [] f.kind = "unreadable" ->
                [settings |-> s, last |-> last, raised |-> "PermissionError"]
          [] f.kind = "invalid" ->
                [settings |-> EmptyDict, last |-> f.mtime, raised |-> "none"]
          [] f.kind = "number" ->
                [settings |-> s, last |-> f.mtime, raised |-> "TypeError"]
          [] f.kind = "doc" ->
                [settings |-> Update(s, JsonLoad(f.text)), last |-> f.mtime, raised |-> "none"]

\* _readConfig(config_path) on document s, timestamp last and file system fs
_readConfig(config_path, s, last, fs) ==
    LET f == fs[config_path]
    IN  CASE f.kind \in {"absent", "unreadable"} ->
                \* open() raises OSError, caught on line 180
                [settings |-> ReloadSections(s), last |-> last, raised |-> "none"]
          [] f.kind = "invalid" ->
                \* the timestamp is taken on line 177, json.load raises ValueError
                [settings |-> ReloadSections(s), last |-> f.mtime, raised |-> "none"]
          [] f.kind = "number" ->
                \* dict.update(number) raises TypeError, which is not caught
                [settings |-> s, last |-> f.mtime, raised |-> "TypeError"]
          [] f.kind = "doc" ->
                [settings |-> ReloadSections(Update(s, JsonLoad(f.text))),
                 last |-> f.mtime, raised |-> "none"]

\* _writeConfig that does not record the modification time of what it wrote
WriteConfigNoTimestamp(s, path, last, fs, t, io) ==
    LET stamped == SetKey(s, "version", Scalar(AppVersion))
    IN  IF io = "ok"
        THEN [settings |-> stamped,
              files |-> [fs EXCEPT ![path] = DocFile(stamped, t)],
              last |-> last, wrote |-> "ok"]
        ELSE [settings |-> stamped, files |-> fs, last |-> last, wrote |-> "failed"]

\* _writeConfig that serializes the document before it stamps the version
WriteConfigStampAfter(s, path, last, fs, t, io) ==
    LET stamped == SetKey(s, "version", Scalar(AppVersion))
    IN  IF io = "ok"
        THEN [settings |-> stamped,
              files |-> [fs EXCEPT ![path] = DocFile(s, t)],
              last |-> t, wrote |-> "ok"]
        ELSE [settings |-> stamped, files |-> fs, last |-> last, wrote |-> "failed"]

\* _writeConfig() on document s; io tells whether the write goes through
_writeConfig(s, path, last, fs, t, io) ==
    LET stamped == SetKey(s, "version", Scalar(AppVersion))
    IN  IF io = "ok"
        THEN [settings |-> stamped,
              files |-> [fs EXCEPT ![path] = DocFile(stamped, t)],
              last |-> t, wrote |-> "ok"]
        ELSE [settings |-> stamped, files |-> fs, last |-> last, wrote |-> "failed"]

\* "other" lies in a directory the process cannot write to: there is no file at
\* that path and creating one fails with OSError
ReadOnlyPaths == {"other"}

\* the ways a write to path can end
IOs(path) == IF path \in ReadOnlyPaths THEN {"OSError"} ELSE {"ok", "OSError"}

-----------------------------------------------------------------------------
(* The store: inputs *)

Paths == {"system", "cwd", "user", "other"}

\* the paths a caller passes to instance() and setConfigFilePath()
UserPaths == {"user", "other"}

Sections == {"A"}

\* default templates of the callers of loadSectionSettings
Templates ==
    {[a |-> Scalar(0)],
     [a |-> Scalar(0), n |-> [x |-> Scalar(0)]]}

\* values the callers of saveSectionSettings pass
SaveValues ==
    {[a |-> Scalar(1)],
     [n |-> Scalar(1)]}

\* documents the callers of setSettings pass, besides settings() itself
SetDocs ==
    {[A |-> [a |-> Scalar(2)]],
     [version |-> Scalar(V139), A |-> [a |-> Scalar(2)]]}

\* documents other processes write to a config file
ExtDocs ==
    {[A |-> [a |-> Scalar(1)]],
     [version |-> Scalar(V139), A |-> [n |-> [x |-> Scalar(1)]]]}

\* what a config file can hold after another process has written it at time t
ExtFiles(t) ==
    {DocFile(d, t) : d \in ExtDocs}
    \cup {[kind |-> k, text |-> {}, mtime |-> t] : k \in {"invalid", "number", "unreadable"}}

\* the file systems the application starts on
InitialFiles ==
    {fs \in [Paths -> {NoFile} \cup ExtFiles(0)] :
        /\ fs["system"] = NoFile
        /\ fs["cwd"] = NoFile
        /\ fs["user"] \in {NoFile} \cup ExtFiles(0)
        /\ fs["other"] = NoFile}

\* the outcome of an operation
\* the outcome of a step: arg are the arguments of the call, raised the exception
\* that left it, wrote tells whether _writeConfig was not called ("no"), wrote the
\* file ("ok") or logged an OSError ("failed"), emitted whether
\* config_changed_signal was emitted, ret the returned value
Outcome(name, arg, raised, wrote, emitted, ret) ==
    [name |-> name, arg |-> arg, raised |-> raised, wrote |-> wrote, emitted |-> emitted,
     ret |-> ret]

-----------------------------------------------------------------------------
(* The store: operations *)

Init ==
    /\ settings = EmptyDict
    /\ config_file = "user"
    /\ last_config_changed = Unset
    /\ instance = "none"
    /\ files \in InitialFiles
    /\ now = 1
    /\ op = Outcome("none", Absent, "none", "no", FALSE, Absent)
    /\ loaded = {}
    /\ mig_doc = EmptyDict
    /\ mig_in = EmptyDict
    /\ mig_runs = 0
    /\ mig_raised = "none"
    /\ WriteIdle
    /\ CallsIdle
    /\ HubIdle

\* lines 83-86: the config file __init__ starts from
InitialPath(arg) == IF arg = "none" THEN "user" ELSE arg

\* lines 92-95: a config file in the current working directory wins
EffectivePath(arg, fs) == IF Exists(fs["cwd"]) THEN "cwd" ELSE InitialPath(arg)

\* lines 88-90: the system wide settings are read first
ReadSystemWide(fs) ==
    IF Exists(fs["system"])
    THEN _readConfig("system", EmptyDict, Unset, fs)
    ELSE [settings |-> EmptyDict, last |-> Unset, raised |-> "none"]

\* LocalConfig.instance(config_file) when there is no instance yet: __init__
\* (lines 60-112).  arg is "none" for config_file=None.  _migrateOldConfigPath
\* (line 70) copies a directory before any file is looked at: the file systems
\* of InitialFiles are those it leaves.  An exception leaves no instance.
Construct(arg, ioCreate, ioWrite) ==
    /\ instance = "none"
    /\ LET path0 == InitialPath(arg)
           r1 == ReadSystemWide(files)
           path1 == EffectivePath(arg, files)
           created == ~Exists(files["cwd"]) /\ ~Exists(files[path0]) /\ ioCreate = "ok"
           fs1 == IF created
                  THEN [files EXCEPT ![path0] =
                           DocFile([version |-> Scalar(AppVersion), type |-> Scalar("settings")], now)]
                  ELSE files
           r2 == _readConfig(path1, r1.settings, r1.last, fs1)
           m == _migrateOldConfig(r2.settings)
           w == _writeConfig(m.doc, path1, r2.last, fs1, now, ioWrite)
           raised == IF r1.raised # "none" THEN r1.raised
                     ELSE IF r2.raised # "none" THEN r2.raised
                     ELSE m.raised
       IN  IF raised # "none"
           THEN /\ files' = IF r1.raised # "none" THEN files ELSE fs1
                /\ op' = Outcome("instance", arg, raised, "no", FALSE, Absent)
                /\ UNCHANGED <<settings, config_file, last_config_changed, instance>>
           ELSE /\ settings' = w.settings
                /\ config_file' = path1
                /\ last_config_changed' = w.last
                /\ files' = w.files
                /\ instance' = "ready"
                /\ op' = Outcome("instance", arg, "none", w.wrote, FALSE, Absent)
    /\ UNCHANGED <<now, loaded, initFrame>>

\* line 207: the file is newer than the recorded timestamp
FileIsNewer(last, f) == last < f.mtime

\* _checkConfigChanged (lines 206-210): one tick of the polling timer
CheckConfigChanged ==
    /\ instance = "ready"
    /\ LET f == files[config_file]
           r == _readConfig(config_file, settings, last_config_changed, files)
       IN  IF last_config_changed = Unset
           THEN /\ op' = Outcome("tick", Absent, "AttributeError", "no", FALSE, Absent)
                /\ UNCHANGED <<settings, last_config_changed>>
           ELSE IF ~Exists(f)
           THEN /\ op' = Outcome("tick", Absent, "FileNotFoundError", "no", FALSE, Absent)
                /\ UNCHANGED <<settings, last_config_changed>>
           ELSE IF FileIsNewer(last_config_changed, f)
           THEN /\ settings' = r.settings
                /\ last_config_changed' = r.last
                /\ op' = Outcome("tick", Absent, r.raised, "no", r.raised = "none", Absent)
           ELSE /\ op' = Outcome("tick", Absent, "none", "no", FALSE, Absent)
                /\ UNCHANGED <<settings, last_config_changed>>
    /\ UNCHANGED <<config_file, instance, files, now, loaded, otherVars>>

\* setConfigFilePath(config_file) (lines 221-229)
SetConfigFilePath(path) ==
    /\ instance = "ready"
    /\ LET r == _readConfig(path, settings, last_config_changed, files)
       IN  /\ config_file' = path
           /\ settings' = r.settings
           /\ last_config_changed' = r.last
           /\ op' = Outcome("setConfigFilePath", path, r.raised, "no", FALSE, Absent)
    /\ UNCHANGED <<instance, files, now, loaded, otherVars>>

\* setSettings that replaces the document instead of merging into it
SetSettingsReplaces(doc, io) ==
    /\ instance = "ready"
    /\ IF settings # doc
       THEN LET w == _writeConfig(doc, config_file, last_config_changed, files, now, io)
            IN  /\ settings' = w.settings
                /\ files' = w.files
                /\ last_config_changed' = w.last
                /\ op' = Outcome("setSettings", doc, "none", w.wrote, FALSE, Absent)
       ELSE /\ op' = Outcome("setSettings", doc, "none", "no", FALSE, Absent)
            /\ UNCHANGED <<settings, files, last_config_changed>>
    /\ UNCHANGED <<config_file, instance, now, loaded, otherVars>>

\* setSettings(settings) (lines 240-249)
SetSettings(doc, io) ==
    /\ instance = "ready"
    /\ IF settings # doc
       THEN LET w == _writeConfig(Update(settings, doc), config_file, last_config_changed,
                                  files, now, io)
            IN  /\ settings' = w.settings
                /\ files' = w.files
                /\ last_config_changed' = w.last
                /\ op' = Outcome("setSettings", doc, "none", w.wrote, FALSE, Absent)
       ELSE /\ op' = Outcome("setSettings", doc, "none", "no", FALSE, Absent)
            /\ UNCHANGED <<settings, files, last_config_changed>>
    /\ UNCHANGED <<config_file, instance, now, loaded, otherVars>>

\* loadSectionSettings that flushes the filled section to the config file
LoadSectionSettingsAndSave(section, default_settings) ==
    /\ instance = "ready"
    /\ LET r == loadSectionSettings(settings, section, default_settings)
           w == _writeConfig(r.settings, config_file, last_config_changed, files, now, "ok")
       IN  /\ settings' = w.settings
           /\ files' = w.files
           /\ last_config_changed' = w.last
           /\ op' = Outcome("loadSectionSettings", <<section, default_settings>>, r.raised, "no",
                         FALSE, r.ret)
           /\ loaded' = loaded
    /\ UNCHANGED <<config_file, instance, now, otherVars>>

\* loadSectionSettings(section, default_settings) (lines 251-279)
LoadSectionSettings(section, default_settings) ==
    /\ instance = "ready"
    /\ LET r == loadSectionSettings(settings, section, default_settings)
       IN  /\ settings' = r.settings
           /\ op' = Outcome("loadSectionSettings", <<section, default_settings>>, r.raised, "no", FALSE,
                         r.ret)
           /\ loaded' = IF r.raised = "none"
                        THEN loaded \cup {<<section, default_settings>>}
                        ELSE loaded
    /\ UNCHANGED <<config_file, last_config_changed, instance, files, now, otherVars>>

\* a comparison that asks whether merging new would change the section
MergeChanges(current, new) == IsDict(current) /\ Update(current, new) # current

\* line 292: has the section to be saved
SectionDiffers(current, new) == current # new

\* saveSectionSettings(section, settings) (lines 281-297)
SaveSectionSettings(section, values, io) ==
    /\ instance = "ready"
    /\ LET s1 == IF section \notin DOMAIN settings
                 THEN SetKey(settings, section, EmptyDict)
                 ELSE settings
       IN  IF SectionDiffers(s1[section], values)
           THEN IF ~IsDict(s1[section])
                THEN /\ settings' = s1
                     /\ op' = Outcome("saveSectionSettings", <<section, values>>, "AttributeError",
                                   "no", FALSE, Absent)
                     /\ UNCHANGED <<files, last_config_changed>>
                ELSE LET w == _writeConfig(SetKey(s1, section, Update(s1[section], values)),
                                           config_file, last_config_changed, files, now, io)
                     IN  /\ settings' = w.settings
                         /\ files' = w.files
                         /\ last_config_changed' = w.last
                         /\ op' = Outcome("saveSectionSettings", <<section, values>>, "none",
                                       w.wrote, FALSE, Absent)
           ELSE /\ settings' = s1
                /\ op' = Outcome("saveSectionSettings", <<section, values>>, "none", "no", FALSE,
                              Absent)
                /\ UNCHANGED <<files, last_config_changed>>
    /\ UNCHANGED <<config_file, instance, now, loaded, otherVars>>

\* another process writes, damages or locks a config file
ExternalWrite(path, f) ==
    /\ files' = [files EXCEPT ![path] = f]
    /\ op' = Outcome("external", path, "none", "no", FALSE, Absent)
    /\ UNCHANGED <<settings, config_file, last_config_changed, instance, now, loaded, otherVars>>

\* another process deletes a config file
ExternalDelete(path) ==
    /\ Exists(files[path])
    /\ files' = [files EXCEPT ![path] = NoFile]
    /\ op' = Outcome("external", path, "none", "no", FALSE, Absent)
    /\ UNCHANGED <<settings, config_file, last_config_changed, instance, now, loaded, otherVars>>

\* time passes
AdvanceClock ==
    /\ now < MaxTime
    /\ now' = now + 1
    /\ op' = Outcome("clock", Absent, "none", "no", FALSE, Absent)
    /\ UNCHANGED <<settings, config_file, last_config_changed, instance, files, loaded, otherVars>>

Next ==
    \/ \E arg \in {"none"} \cup UserPaths :
            \E ioCreate \in IOs(InitialPath(arg)), ioWrite \in IOs(EffectivePath(arg, files)) :
                Construct(arg, ioCreate, ioWrite) /\ UNCHANGED callVars
    \/ CheckConfigChanged
    \/ \E path \in UserPaths : SetConfigFilePath(path)
    \/ \E doc \in SetDocs \cup {settings}, io \in IOs(config_file) : SetSettings(doc, io)
    \/ \E section \in Sections, d \in Templates : LoadSectionSettings(section, d)
    \/ \E section \in Sections, values \in SaveValues, io \in IOs(config_file) :
            SaveSectionSettings(section, values, io)
    \/ \E path \in UserPaths \ ReadOnlyPaths, f \in ExtFiles(now) : ExternalWrite(path, f)
    \/ \E path \in UserPaths \ ReadOnlyPaths : ExternalDelete(path)
    \/ AdvanceClock

Spec == Init /\ [][Next]_vars

-----------------------------------------------------------------------------
(* Properties of the store, under Spec *)

RECURSIVE ContainsKeys(_, _)
\* the mapping m has every key of the template D, nested mappings included
ContainsKeys(m, D) ==
    /\ IsDict(m)
    /\ \A k \in DOMAIN D :
          /\ k \in DOMAIN m
          /\ (IsDict(D[k]) /\ D[k] # EmptyDict) => ContainsKeys(m[k], D[k])

RECURSIVE KeepsValues(_, _, _)
\* every key of both S and D has in r the value it has in S, nested mappings
\* being compared key by key
KeepsValues(r, S, D) ==
    /\ IsDict(r)
    /\ \A k \in (DOMAIN S) \cap (DOMAIN D) :
          /\ k \in DOMAIN r
          /\ IF IsDict(S[k]) /\ IsDict(D[k]) /\ S[k] # EmptyDict
             THEN KeepsValues(r[k], S[k], D[k])
             ELSE r[k] = S[k]

\* the section as the callers see it: an absent section reads as empty
SectionOf(s, section) == Get(s, section, EmptyDict)

\* C1: loadSectionSettings(section, D) returns a mapping that has every key
\* of D (nested mappings included) and in which every key of both the section
\* S and D keeps S's value, and that mapping is the section in memory afterwards.
C1_LoadFillsDefaults ==
    [][op'.name = "loadSectionSettings" =>
          LET section == op'.arg[1]
              D == op'.arg[2]
              S == SectionOf(settings, section)
          IN  /\ op'.raised = "none"
              /\ ContainsKeys(op'.ret, D)
              /\ KeepsValues(op'.ret, S, D)
              /\ section \in DOMAIN settings'
              /\ settings'[section] = op'.ret]_vars

\* C2: saveSectionSettings(section, values) with values equal to the section's
\* content writes nothing and leaves the files and the recorded timestamp as
\* they are; with any other values it merges them, calls _writeConfig, and the
\* file then holds the whole document (the operating system permitting).
C2_SaveSkipsOnlyEqualValues ==
    [][op'.name = "saveSectionSettings" =>
          LET section == op'.arg[1]
              values == op'.arg[2]
              current == SectionOf(settings, section)
          IN  IF values = current
              THEN /\ op'.wrote = "no"
                   /\ files' = files
                   /\ last_config_changed' = last_config_changed
              ELSE /\ op'.wrote # "no"
                   /\ settings'[section] = Update(current, values)
                   /\ op'.wrote = "ok" =>
                         /\ files'[config_file].kind = "doc"
                         /\ JsonLoad(files'[config_file].text) = settings'
                         /\ files'[config_file].mtime = now
                         /\ last_config_changed' = now]_vars

C2_Witness ==
    /\ op.name = "saveSectionSettings"
    /\ op.wrote = "no"
    /\ op.arg[2] # EmptyDict
    /\ op.arg[2] = settings[op.arg[1]]
    /\ Exists(files[config_file])

\* C3: saveSectionSettings(section, values) writes the document exactly when
\* merging values changes the section; when the merge leaves the section as
\* it was (values being some of the pairs the section already holds), nothing
\* is written and the files and the recorded timestamp stay as they are.
C3_SaveWritesIffMergeChanges ==
    [][op'.name = "saveSectionSettings" =>
          LET section == op'.arg[1]
              values == op'.arg[2]
              current == SectionOf(settings, section)
          IN  IF Update(current, values) = current
              THEN /\ op'.wrote = "no"
                   /\ files' = files
                   /\ last_config_changed' = last_config_changed
              ELSE op'.wrote # "no"]_vars

\* the tick gets as far as reading the file: the timestamp was recorded, the
\* file exists and is newer
TickReads(last, f) == last # Unset /\ Exists(f) /\ FileIsNewer(last, f)

\* C4: a tick that finds a JSON document with a modification time newer than
\* the recorded timestamp leaves in memory the previous document updated with
\* the file's top-level keys and emits the change notification; the file is
\* then no longer newer than the timestamp, and a tick that directly follows
\* emits nothing and changes nothing.
C4_TickReloadsOnce ==
    /\ [][(op'.name = "tick" /\ files[config_file].kind = "doc"
             /\ TickReads(last_config_changed, files[config_file])) =>
              /\ settings' = Update(settings, JsonLoad(files[config_file].text))
              /\ op'.emitted
              /\ op'.raised = "none"
              /\ ~TickReads(last_config_changed', files'[config_file'])]_vars
    /\ [][(op.name = "tick" /\ op.emitted /\ files[config_file].kind = "doc"
             /\ op'.name = "tick") =>
              /\ ~op'.emitted
              /\ settings' = settings]_vars

C4_Witness ==
    /\ op.name = "tick"
    /\ op.emitted
    /\ files[config_file].kind = "doc"
    /\ "A" \in DOMAIN settings
    /\ settings["A"] = JsonLoad(files[config_file].text)["A"]
    /\ settings # JsonLoad(files[config_file].text)

\* every section that was loaded still has the keys of its defaults
LoadedSectionsFilled(s, l) ==
    \A p \in l : p[1] \in DOMAIN s /\ ContainsKeys(s[p[1]], p[2])

\* C5: a section that was loaded with loadSectionSettings(section, D) and has
\* every key of D still has every key of D (nested mappings included) after
\* the config file is read again, by a polling tick or by setConfigFilePath.
C5_LoadedSectionsStayFilled ==
    [][(op'.name \in {"tick", "setConfigFilePath"} /\ LoadedSectionsFilled(settings, loaded))
          => LoadedSectionsFilled(settings', loaded')]_vars

\* the reads of _readConfig that fail: no file, no permission, no JSON
FailedKinds == {"absent", "unreadable", "invalid"}

\* C9: a _readConfig that fails because the file is missing, unreadable or
\* not JSON leaves the document as it was and raises nothing, whether it is
\* called by setConfigFilePath, by a polling tick or by __init__ (which then
\* goes on to migrate and stamp the document it had before the read).
C9_FailedReadKeepsDocument ==
    [][/\ (op'.name = "setConfigFilePath" /\ files[op'.arg].kind \in FailedKinds) =>
              (settings' = settings /\ op'.raised = "none")
       /\ (op'.name = "tick" /\ TickReads(last_config_changed, files[config_file])
             /\ files[config_file].kind \in FailedKinds) =>
              (settings' = settings /\ op'.raised = "none")
       /\ (op'.name = "instance" /\ ReadSystemWide(files).raised = "none"
             /\ \/ files[EffectivePath(op'.arg, files)].kind \in {"unreadable", "invalid"}
                \/ /\ files[EffectivePath(op'.arg, files)].kind = "absent"
                   /\ EffectivePath(op'.arg, files) \in ReadOnlyPaths) =>
              /\ op'.raised = "none"
              /\ instance' = "ready"
              /\ settings' = SetKey(_migrateOldConfig(ReadSystemWide(files).settings).doc,
                                    "version", Scalar(AppVersion))]_vars

C9_Witness ==
    /\ op.name = "setConfigFilePath"
    /\ op.raised = "none"
    /\ files[config_file].kind = "invalid"
    /\ "A" \in DOMAIN settings
    /\ "a" \in DOMAIN settings["A"]

\* C10: the recorded timestamp changes only in a step that wrote the file or
\* read a file whose JSON was parsed (stated of setConfigFilePath and of the
\* polling tick; __init__ is left out).
C10_TimestampOnlyFromSuccess ==
    [][(last_config_changed' # last_config_changed /\ op'.name # "instance") =>
          \/ op'.wrote = "ok"
          \/ op'.name = "setConfigFilePath" /\ files[op'.arg].kind \in {"doc", "number"}
          \/ op'.name = "tick" /\ files[config_file].kind \in {"doc", "number"}]_vars

\* the file at the config path holds the document s, written at time t
FileHolds(fs, path, s, t) ==
    /\ fs[path].kind = "doc"
    /\ JsonLoad(fs[path].text) = s
    /\ fs[path].mtime = t

\* C13 as stated: setSettings(doc) with a doc that differs from the document
\* in memory leaves every top-level key of doc with doc's value and every
\* other top-level key as it was, and writes the document; with a doc equal
\* to the document in memory it changes nothing and writes nothing.
C13_SetSettingsKeepsEveryKey ==
    [][op'.name = "setSettings" =>
          LET doc == op'.arg
          IN  IF doc # settings
              THEN /\ \A k \in DOMAIN doc : k \in DOMAIN settings' /\ settings'[k] = doc[k]
                   /\ \A k \in (DOMAIN settings) \ (DOMAIN doc) :
                         k \in DOMAIN settings' /\ settings'[k] = settings[k]
                   /\ op'.wrote # "no"
              ELSE /\ settings' = settings
                   /\ op'.wrote = "no"
                   /\ files' = files]_vars

\* C13 as amended: setSettings(doc) with a doc that differs from the document
\* in memory leaves every top-level key of doc other than version with doc's
\* value, version with the version of the running application and every other
\* top-level key as it was, and calls _writeConfig, after which the file holds
\* that document (the operating system permitting); with a doc equal to the
\* document in memory it changes nothing and writes nothing.
C13_SetSettingsMergesAndStamps ==
    [][op'.name = "setSettings" =>
          LET doc == op'.arg
          IN  IF doc # settings
              THEN /\ DOMAIN settings' = (DOMAIN settings) \cup (DOMAIN doc) \cup {"version"}
                   /\ \A k \in (DOMAIN doc) \ {"version"} : settings'[k] = doc[k]
                   /\ settings'["version"] = Scalar(AppVersion)
                   /\ \A k \in (DOMAIN settings) \ ((DOMAIN doc) \cup {"version"}) :
                         settings'[k] = settings[k]
                   /\ op'.wrote # "no"
                   /\ op'.wrote = "ok" =>
                         /\ FileHolds(files', config_file, settings', now)
                         /\ last_config_changed' = now
              ELSE /\ settings' = settings
                   /\ op'.wrote = "no"
                   /\ files' = files
                   /\ last_config_changed' = last_config_changed]_vars

C13_Witness ==
    /\ op.name = "setSettings"
    /\ op.wrote = "ok"
    /\ "version" \in DOMAIN op.arg
    /\ settings["version"] # op.arg["version"]
    /\ settings["A"] = op.arg["A"]
    /\ "type" \in DOMAIN settings
    /\ FileHolds(files, config_file, settings, now)

-----------------------------------------------------------------------------
(* Documents the migration is exercised on *)

\* the dict that holds the present entries of all
Present(all) == [k \in {x \in DOMAIN all : all[x] # Absent} |-> all[k]]

MigVersions == {Absent, Scalar(V139), Scalar(V140), Scalar(V14), Scalar(V1310), Scalar(V1100), Scalar(V20)}

MigLocalServers ==
    {Absent,
     [path |-> Scalar(OldServerPath)],
     [path |-> Scalar("/usr/bin/gns3server")],
     [path |-> Scalar(OldServerPath), host |-> Scalar("127.0.0.1")],
     [host |-> Scalar("127.0.0.1")]}

MigRemoteServers == {Absent, Scalar("remote1")}

MigServers ==
    {Absent, EmptyDict,
     [local_server |-> [path |-> Scalar("/opt/gns3server")], vm |-> Scalar("vm1")]}

MigGUIs == {Absent, EmptyDict, [hide_getting_started_dialog |-> Scalar(TRUE)]}

MigMainWindows == {Absent, [geometry |-> Scalar("g1")]}

MigDocs ==
    {Present([version |-> v, LocalServer |-> ls, RemoteServers |-> rs, Servers |-> sv,
              GUI |-> gui, MainWindow |-> mw]) :
        v \in MigVersions, ls \in MigLocalServers, rs \in MigRemoteServers,
        sv \in MigServers, gui \in MigGUIs, mw \in MigMainWindows}

\* the store is not running while the migration is exercised
StoreIdle ==
    /\ settings = EmptyDict
    /\ config_file = "user"
    /\ last_config_changed = Unset
    /\ instance = "none"
    /\ files = EmptyDict
    /\ now = 0
    /\ op = [name |-> "none"]
    /\ loaded = {}

InitMig ==
    /\ mig_doc \in MigDocs
    /\ mig_in = mig_doc
    /\ mig_runs = 0
    /\ mig_raised = "none"
    /\ StoreIdle
    /\ WriteIdle
    /\ CallsIdle
    /\ HubIdle

\* one call of _migrateOldConfig on the current document
Migrate ==
    /\ mig_runs < MaxMigRuns
    /\ mig_doc' = _migrateOldConfig(mig_doc).doc
    /\ mig_raised' = _migrateOldConfig(mig_doc).raised
    /\ mig_runs' = mig_runs + 1
    /\ UNCHANGED <<mig_in, storeVars, writeVars, rt_before, callVars, hubVars>>

NextMig == Migrate

SpecMig == InitMig /\ [][NextMig]_vars

-----------------------------------------------------------------------------
(* Properties of _migrateOldConfig, under SpecMig *)

\* the versions of MigVersions that precede 1.4.0 in dotted-numeric order
VersionsBelowCutoff == {V139, V1310}

BelowCutoff(d) == "version" \notin DOMAIN d \/ d["version"].scalar \in VersionsBelowCutoff

\* the old LocalServer content with the obsolete install path replaced
RewrittenLocalServer(ls) ==
    IF "path" \in DOMAIN ls /\ ls["path"] = Scalar(OldServerPath)
    THEN SetKey(ls, "path", Scalar(NewServerPath))
    ELSE ls

\* C6: after _migrateOldConfig on a pre-cutoff document, a LocalServer section
\* has become Servers.local_server (install path rewritten) and is no longer a
\* top-level key, and RemoteServers has become Servers.remote_servers and is
\* no longer a top-level key.
C6_LegacySectionsRenamed ==
    (mig_runs = 1 /\ BelowCutoff(mig_in)) =>
        /\ "LocalServer" \in DOMAIN mig_in =>
              /\ "Servers" \in DOMAIN mig_doc
              /\ "local_server" \in DOMAIN mig_doc["Servers"]
              /\ mig_doc["Servers"]["local_server"] = RewrittenLocalServer(mig_in["LocalServer"])
              /\ "LocalServer" \notin DOMAIN mig_doc
        /\ "RemoteServers" \in DOMAIN mig_in =>
              /\ "Servers" \in DOMAIN mig_doc
              /\ "remote_servers" \in DOMAIN mig_doc["Servers"]
              /\ mig_doc["Servers"]["remote_servers"] = mig_in["RemoteServers"]
              /\ "RemoteServers" \notin DOMAIN mig_doc

\* C7: on a pre-cutoff document whose version is not restamped, applying
\* _migrateOldConfig again leaves the document as the first application left it.
C7_MigrationIdempotent ==
    (mig_runs >= 2 /\ BelowCutoff(mig_in)) => mig_doc = _migrateOldConfig(mig_in).doc

C7_Witness ==
    /\ mig_runs = 2
    /\ BelowCutoff(mig_in)
    /\ "LocalServer" \in DOMAIN mig_in
    /\ "GUI" \in DOMAIN mig_in
    /\ mig_raised = "none"
    /\ mig_doc # mig_in

\* C8 as stated: _migrateOldConfig changes the document if and only if the
\* document has no version key or a version below 1.4.0 in dotted-numeric order
\* (stated of the runs that end without an exception).
C8_ChangesIffBelowCutoff ==
    (mig_runs = 1 /\ mig_raised = "none") => ((mig_doc # mig_in) <=> BelowCutoff(mig_in))

\* C8 as amended: _migrateOldConfig changes the document only if the document
\* has no version key or a version below 1.4.0 in dotted-numeric order (1.4.0,
\* 1.4, 1.10.0 and 2.0 are left completely unchanged); a pre-cutoff document
\* such as one at 1.3.9 is changed whenever it has no Servers key and the
\* migration completes, and may be left unchanged otherwise.
C8_ChangesOnlyBelowCutoff ==
    mig_runs >= 1 =>
        /\ (mig_doc # mig_in) => BelowCutoff(mig_in)
        /\ (BelowCutoff(mig_in) /\ "Servers" \notin DOMAIN mig_in /\ mig_raised = "none")
              => (mig_doc # mig_in /\ "Servers" \in DOMAIN mig_doc)

C8_Witness ==
    /\ mig_runs = 1
    /\ "version" \in DOMAIN mig_in
    /\ mig_in["version"] = Scalar(V1100)
    /\ "LocalServer" \in DOMAIN mig_in
    /\ mig_doc = mig_in

-----------------------------------------------------------------------------
(* _writeConfig (lines 190-204) followed one file operation at a time, with *)
(* the readers of the config path in between                                *)

\* line 197: gns3_gui.tmp in the directory of the config file
TempPath == "tmp"

\* a file that another process finds half written: it is not JSON
PartialFile(text, t) == [kind |-> "invalid", text |-> text, mtime |-> t]

\* the documents the store holds when the writes begin
WriteStartDocs ==
    {[version |-> Scalar(AppVersion), A |-> [a |-> Scalar(0)]],
     [version |-> Scalar(AppVersion), A |-> [a |-> Scalar(0)], B |-> [b |-> Scalar(0)]]}

\* values the callers of saveSectionSettings pass while the writes are followed
WriteValues == SaveValues \cup {[a |-> Scalar(0)]}

\* the step a _writeConfig or one of its readers has just made
WriteStep(name) == Outcome(name, Absent, "none", "no", FALSE, Absent)

\* the store has been constructed and has written its document to the config file
InitWrite ==
    /\ settings \in WriteStartDocs
    /\ config_file = "user"
    /\ files = [user |-> DocFile(settings, 0), tmp |-> NoFile]
    /\ last_config_changed = 0
    /\ instance = "ready"
    /\ now = 1
    /\ op = WriteStep("none")
    /\ loaded = {}
    /\ mig_doc = EmptyDict
    /\ mig_in = EmptyDict
    /\ mig_runs = 0
    /\ mig_raised = "none"
    /\ platform \in Platforms
    /\ wpc = "idle"
    /\ w_prev = files[config_file].text
    /\ seen = files[config_file]
    /\ CallsIdle
    /\ HubIdle

\* saveSectionSettings (lines 289-295) up to the call of _writeConfig, and
\* line 195: the section is merged and the version stamped
BeginWrite(section, values) ==
    /\ wpc = "idle"
    /\ LET s1 == IF section \notin DOMAIN settings
                 THEN SetKey(settings, section, EmptyDict)
                 ELSE settings
       IN  /\ SectionDiffers(s1[section], values)
           /\ IsDict(s1[section])
           /\ settings' = SetKey(SetKey(s1, section, Update(s1[section], values)),
                                 "version", Scalar(AppVersion))
    /\ wpc' = "open"
    /\ w_prev' = files[config_file].text
    /\ op' = WriteStep("saveSectionSettings")
    /\ UNCHANGED <<config_file, last_config_changed, instance, files, now, loaded, migVars,
                   rt_before, callVars, hubVars, platform, seen>>

\* line 198: open(temporary, "w") creates or truncates the temporary file
OpenTemp(io) ==
    /\ wpc = "open"
    /\ IF io = "ok"
       THEN /\ files' = [files EXCEPT ![TempPath] = PartialFile({}, now)]
            /\ wpc' = "dump"
       ELSE /\ wpc' = "idle"
            /\ UNCHANGED files
    /\ op' = WriteStep("open")
    /\ UNCHANGED <<settings, config_file, last_config_changed, instance, now, loaded, migVars,
                   rt_before, callVars, hubVars, platform, w_prev, seen>>

\* line 199: json.dump sends the document to the temporary file piece by piece
\* (sort_keys fixes the order); leaving the with block closes the file
DumpChunk(io) ==
    /\ wpc = "dump"
    /\ LET rest == JsonDump(settings) \ files[TempPath].text
           e == CHOOSE x \in rest : TRUE
       IN  IF io # "ok"
           THEN /\ wpc' = "idle"
                /\ UNCHANGED files
           ELSE IF rest = {}
           THEN /\ files' = [files EXCEPT ![TempPath] = DocFile(settings, now)]
                /\ wpc' = "move"
           ELSE /\ files' = [files EXCEPT ![TempPath] =
                                PartialFile(files[TempPath].text \cup {e}, now)]
                /\ wpc' = "dump"
    /\ op' = WriteStep("dump")
    /\ UNCHANGED <<settings, config_file, last_config_changed, instance, now, loaded, migVars,
                   rt_before, callVars, hubVars, platform, w_prev, seen>>

\* line 200: shutil.move(temporary, self._config_file) tries os.rename first,
\* which replaces an existing destination on POSIX and raises FileExistsError
\* on Windows
RenameReplaces(p, f) == p = "posix" \/ ~Exists(f)

\* line 200, the rename went through: the config path changes in one step
MoveRename ==
    /\ wpc = "move"
    /\ RenameReplaces(platform, files[config_file])
    /\ files' = [files EXCEPT ![config_file] = files[TempPath], ![TempPath] = NoFile]
    /\ wpc' = "stat"
    /\ op' = WriteStep("move")
    /\ UNCHANGED <<settings, config_file, last_config_changed, instance, now, loaded, migVars,
                   rt_before, callVars, hubVars, platform, w_prev, seen>>

\* line 200, os.rename raised OSError: shutil.move falls back to copying, and
\* the copy opens the destination for writing, which truncates it
MoveCopyOpen ==
    /\ wpc = "move"
    /\ ~RenameReplaces(platform, files[config_file])
    /\ files' = [files EXCEPT ![config_file] = PartialFile({}, now)]
    /\ wpc' = "copy"
    /\ op' = WriteStep("move")
    /\ UNCHANGED <<settings, config_file, last_config_changed, instance, now, loaded, migVars,
                   rt_before, callVars, hubVars, platform, w_prev, seen>>

\* line 200, the copy: the content of the temporary file is written to the
\* destination and the temporary file unlinked; an OSError (disk full) ends
\* _writeConfig on line 203 with the destination as far as it got
MoveCopyWrite(io) ==
    /\ wpc = "copy"
    /\ IF io = "ok"
       THEN /\ files' = [files EXCEPT ![config_file] = [files[TempPath] EXCEPT !.mtime = now],
                                      ![TempPath] = NoFile]
            /\ wpc' = "stat"
       ELSE /\ wpc' = "idle"
            /\ UNCHANGED files
    /\ op' = WriteStep("move")
    /\ UNCHANGED <<settings, config_file, last_config_changed, instance, now, loaded, migVars,
                   rt_before, callVars, hubVars, platform, w_prev, seen>>

\* line 202: the timestamp is taken from the file that was moved in
StatWritten ==
    /\ wpc = "stat"
    /\ last_config_changed' = files[config_file].mtime
    /\ wpc' = "idle"
    /\ op' = WriteStep("stat")
    /\ UNCHANGED <<settings, config_file, instance, files, now, loaded, migVars,
                   rt_before, callVars, hubVars, platform, w_prev, seen>>

\* another process opens the config path and reads what is there
ReadByOtherProcess ==
    /\ seen' = files[config_file]
    /\ op' = WriteStep("read")
    /\ UNCHANGED <<settings, config_file, last_config_changed, instance, files, now, loaded,
                   migVars, rt_before, callVars, hubVars, platform, wpc, w_prev>>

\* the polling tick: its slot runs on the thread of the store, so never while
\* a _writeConfig is under way
TickBetweenWrites ==
    /\ wpc = "idle"
    /\ CheckConfigChanged

NextWrite ==
    \/ \E section \in Sections, values \in WriteValues : BeginWrite(section, values)
    \/ \E io \in {"ok", "OSError"} : OpenTemp(io)
    \/ \E io \in {"ok", "OSError"} : DumpChunk(io)
    \/ MoveRename
    \/ MoveCopyOpen
    \/ \E io \in {"ok", "OSError"} : MoveCopyWrite(io)
    \/ StatWritten
    \/ ReadByOtherProcess
    \/ TickBetweenWrites

SpecWrite == InitWrite /\ [][NextWrite]_vars

\* the file holds a whole document: the one at the config path when the
\* write began, or the one being written
WholePreviousOrNew(f) ==
    /\ f.kind = "doc"
    /\ f.text \in {w_prev, JsonDump(settings)}

\* C11: whenever the config path is read while the store writes (by another
\* process at any point of _writeConfig, by the polling tick between two
\* writes), what is found there is the whole previous document or the whole
\* new document, never a partially written one.
C11_ReadersSeeWholeDocument ==
    [][/\ op'.name = "read" => WholePreviousOrNew(seen')
       /\ op'.name = "tick" => WholePreviousOrNew(files'[config_file])]_vars

-----------------------------------------------------------------------------
(* _writeConfig followed by _readConfig of the same path *)

\* documents of the data model: a version, the type marker, sections with
\* scalars, nested mappings, empty mappings and sequences
RoundVersions == {Absent, Scalar(V139), Scalar(AppVersion)}

RoundTypes == {Absent, Scalar("settings")}

RoundSectionsA ==
    {Absent, EmptyDict,
     [a |-> Scalar(1)],
     [a |-> Scalar(1), n |-> [x |-> Scalar(1)]],
     [n |-> EmptyDict],
     [l |-> Scalar(<<1, 2>>), n |-> [x |-> Scalar(1), y |-> [z |-> Scalar(TRUE)]]]}

RoundSectionsB == {Absent, [b |-> Scalar("b1")]}

RoundDocs ==
    {Present([version |-> v, type |-> t, A |-> a, B |-> b]) :
        v \in RoundVersions, t \in RoundTypes, a \in RoundSectionsA, b \in RoundSectionsB}

\* the store is running with some document in memory; the config file is
\* missing or holds what an earlier session or another process left
InitRound ==
    /\ settings \in RoundDocs
    /\ config_file = "user"
    /\ files \in {fs \in [Paths -> {NoFile} \cup ExtFiles(0)] :
                     \A p \in Paths \ {"user"} : fs[p] = NoFile}
    /\ last_config_changed = 0
    /\ instance = "ready"
    /\ now = 1
    /\ op = Outcome("none", Absent, "none", "no", FALSE, Absent)
    /\ loaded = {}
    /\ mig_doc = EmptyDict
    /\ mig_in = EmptyDict
    /\ mig_runs = 0
    /\ mig_raised = "none"
    /\ platform = "posix"
    /\ wpc = "idle"
    /\ w_prev = {}
    /\ seen = NoFile
    /\ CallsIdle
    /\ HubIdle

\* one call of _writeConfig (lines 190-204)
RoundWrite(io) ==
    /\ op.name # "_writeConfig"
    /\ LET w == _writeConfig(settings, config_file, last_config_changed, files, now, io)
       IN  /\ settings' = w.settings
           /\ files' = w.files
           /\ last_config_changed' = w.last
           /\ rt_before' = [doc |-> settings, wrote |-> w.wrote]
           /\ op' = Outcome("_writeConfig", Absent, "none", w.wrote, FALSE, Absent)
    /\ UNCHANGED <<config_file, instance, now, loaded, migVars, writeVars, callVars, hubVars>>

\* one call of _readConfig(self._config_file) (lines 169-188) right after
RoundRead ==
    /\ op.name = "_writeConfig"
    /\ LET r == _readConfig(config_file, settings, last_config_changed, files)
       IN  /\ settings' = r.settings
           /\ last_config_changed' = r.last
           /\ op' = Outcome("_readConfig", config_file, r.raised, "no", FALSE, Absent)
    /\ UNCHANGED <<config_file, instance, files, now, loaded, migVars, writeVars, rt_before,
                   callVars, hubVars>>

NextRound ==
    \/ \E io \in IOs(config_file) : RoundWrite(io)
    \/ RoundRead

SpecRound == InitRound /\ [][NextRound]_vars

\* C12: when _writeConfig succeeds and the same path is read back by
\* _readConfig with nothing else writing in between, the document in memory
\* after the read is the document before the write with version set to the
\* version of the running application.
C12_WriteReadRoundTrip ==
    (op.name = "_readConfig" /\ rt_before.wrote = "ok") =>
        /\ op.raised = "none"
        /\ settings = SetKey(rt_before.doc, "version", Scalar(AppVersion))
        /\ JsonLoad(files[config_file].text) = settings

C12_Witness ==
    /\ op.name = "_readConfig"
    /\ rt_before.wrote = "ok"
    /\ "version" \in DOMAIN rt_before.doc
    /\ rt_before.doc["version"] = Scalar(V139)
    /\ "A" \in DOMAIN settings
    /\ "n" \in DOMAIN settings["A"]
    /\ settings["A"]["n"] = EmptyDict

-----------------------------------------------------------------------------
(* __init__ (lines 60-112) on the files a machine can hold *)

\* documents an administrator puts in the system wide file
SystemDocs ==
    {[A |-> [a |-> Scalar(0), s |-> Scalar(0)], S |-> [s |-> Scalar(0)]],
     [version |-> Scalar(V20), A |-> [a |-> Scalar(0), s |-> Scalar(0)],
      MainWindow |-> [geometry |-> Scalar("g1")]]}

\* documents earlier sessions left in the user file or in the current directory
UserDocs ==
    ExtDocs \cup
    {[version |-> Scalar(AppVersion), type |-> Scalar("settings")],
     [version |-> Scalar(V140), A |-> [a |-> Scalar(1)], U |-> [u |-> Scalar(1)]],
     [version |-> Scalar(V139), A |-> [a |-> Scalar(1)],
      LocalServer |-> [path |-> Scalar(OldServerPath)],
      GUI |-> [hide_getting_started_dialog |-> Scalar(TRUE)]],
     [A |-> [a |-> Scalar(1)], LocalServer |-> [host |-> Scalar("127.0.0.1")]]}

SystemFiles == {DocFile(d, 0) : d \in SystemDocs} \cup {[kind |-> "invalid", text |-> {}, mtime |-> 0]}

UserFiles == {DocFile(d, 0) : d \in UserDocs} \cup {[kind |-> "invalid", text |-> {}, mtime |-> 0]}

CwdFiles == {DocFile([version |-> Scalar(V140), A |-> [a |-> Scalar(1)], U |-> [u |-> Scalar(1)]], 0)}

\* no store yet, and any of the three files may be there
InitInit ==
    /\ settings = EmptyDict
    /\ config_file = "user"
    /\ last_config_changed = Unset
    /\ instance = "none"
    /\ files \in {fs \in [Paths -> {NoFile} \cup SystemFiles \cup UserFiles \cup CwdFiles] :
                     /\ fs["system"] \in {NoFile} \cup SystemFiles
                     /\ fs["cwd"] \in {NoFile} \cup CwdFiles
                     /\ fs["user"] \in {NoFile} \cup UserFiles
                     /\ fs["other"] = NoFile}
    /\ now = 1
    /\ op = Outcome("none", Absent, "none", "no", FALSE, Absent)
    /\ loaded = {}
    /\ mig_doc = EmptyDict
    /\ mig_in = EmptyDict
    /\ mig_runs = 0
    /\ mig_raised = "none"
    /\ WriteIdle
    /\ CallsIdle
    /\ HubIdle

\* the sections the modules load once the store is there
InitSections == {"A", "S", "U"}

\* LocalConfig.instance(config_file) (lines 299-309): the store is constructed
\* when the class has no instance, and the instance of the class is returned
Instance(arg, ioCreate, ioWrite) ==
    /\ first_path' = IF first_path = "none" THEN EffectivePath(arg, files) ELSE first_path
    /\ IF instance = "none"
       THEN /\ init_runs < MaxInitRuns
            /\ Construct(arg, ioCreate, ioWrite)
            /\ init_runs' = init_runs + 1
       ELSE /\ op' = Outcome("instance", arg, "none", "no", FALSE, Scalar(init_runs))
            /\ UNCHANGED <<settings, config_file, last_config_changed, instance, files, now,
                           loaded, initFrame, init_runs>>

NextInit ==
    \/ \E arg \in {"none"} \cup UserPaths :
            \E ioCreate \in IOs(InitialPath(arg)), ioWrite \in IOs(EffectivePath(arg, files)) :
                Instance(arg, ioCreate, ioWrite)
    \/ \E section \in InitSections, d \in Templates : LoadSectionSettings(section, d)

SpecInit == InitInit /\ [][NextInit]_vars

\* __init__ found a JSON document in the system wide file and in the
\* effective user file, and ran to its end
InitReadBoth(arg, fs, inst) ==
    /\ inst = "ready"
    /\ fs["system"].kind = "doc"
    /\ fs[EffectivePath(arg, fs)].kind = "doc"

\* C14 as stated: after __init__ with a system wide file and an effective user
\* file, every top-level key of the user file holds the user file's value,
\* every top-level key of the system wide file alone holds the system wide
\* value, and that document is written to the effective user path.
C14_UserKeysWinSystemKeysStay ==
    [][(op'.name = "instance" /\ instance = "none" /\ InitReadBoth(op'.arg, files, instance')) =>
          LET sys == JsonLoad(files["system"].text)
              usr == JsonLoad(files[EffectivePath(op'.arg, files)].text)
          IN  /\ \A k \in DOMAIN usr : k \in DOMAIN settings' /\ settings'[k] = usr[k]
              /\ \A k \in (DOMAIN sys) \ (DOMAIN usr) :
                    k \in DOMAIN settings' /\ settings'[k] = sys[k]
              /\ op'.wrote # "no"]_vars

\* the top-level keys __init__ sets itself after the two reads: version
\* always, Servers and MainWindow when the document it read predates 1.4.0
SetByInit(sys, usr) ==
    IF (IF "version" \in DOMAIN usr THEN BelowCutoff(usr) ELSE BelowCutoff(sys))
    THEN {"version", "Servers", "MainWindow"}
    ELSE {"version"}

\* C14 as amended: after __init__ with a system wide file and an effective
\* user file, every top-level key of the user file holds the user file's value
\* (a section of both files is the user's section, whole), and every top-level
\* key of the system wide file alone holds the system wide value, except
\* version, which holds the version of the running application, and, for a
\* document that predates 1.4.0, Servers and MainWindow, which the legacy
\* migration sets; that document is written to the effective user path (the
\* operating system permitting), which is the config file from then on.
C14_UserKeysWinExceptStamped ==
    [][(op'.name = "instance" /\ instance = "none" /\ InitReadBoth(op'.arg, files, instance')) =>
          LET eff == EffectivePath(op'.arg, files)
              sys == JsonLoad(files["system"].text)
              usr == JsonLoad(files[eff].text)
              own == SetByInit(sys, usr)
          IN  /\ (DOMAIN settings') \ own = ((DOMAIN sys) \cup (DOMAIN usr)) \ own
              /\ \A k \in (DOMAIN usr) \ own : settings'[k] = usr[k]
              /\ \A k \in ((DOMAIN sys) \ (DOMAIN usr)) \ own : settings'[k] = sys[k]
              /\ settings'["version"] = Scalar(AppVersion)
              /\ config_file' = eff
              /\ op'.wrote # "no"
              /\ op'.wrote = "ok" => FileHolds(files', eff, settings', now)]_vars

C14_Witness ==
    /\ op.name = "instance"
    /\ op.wrote = "ok"
    /\ files["system"].kind = "doc"
    /\ "S" \in DOMAIN settings
    /\ "U" \in DOMAIN settings
    /\ settings["A"] = [a |-> Scalar(1)]
    /\ FileHolds(files, config_file, settings, now)

\* C15: loadSectionSettings(section, D) writes no file and leaves the recorded
\* timestamp as it is: of the document in memory only the named section may
\* change, every other top-level key, the content of the files and the
\* timestamp stay as they were, and nothing is emitted.
C15_LoadTouchesOnlyItsSection ==
    [][op'.name = "loadSectionSettings" =>
          LET section == op'.arg[1]
          IN  /\ files' = files
              /\ last_config_changed' = last_config_changed
              /\ config_file' = config_file
              /\ op'.wrote = "no"
              /\ ~op'.emitted
              /\ (DOMAIN settings') \ {section} = (DOMAIN settings) \ {section}
              /\ \A k \in (DOMAIN settings) \ {section} : settings'[k] = settings[k]]_vars

C15_Witness ==
    /\ op.name = "loadSectionSettings"
    /\ op.raised = "none"
    /\ op.arg[1] = "U"
    /\ "n" \in DOMAIN settings["U"]
    /\ "A" \in DOMAIN settings
    /\ "n" \notin DOMAIN settings["A"]
    /\ files[config_file].kind = "doc"
    /\ "n" \notin DOMAIN JsonLoad(files[config_file].text)["U"]
    /\ last_config_changed = files[config_file].mtime

\* C16: over any sequence of calls of LocalConfig.instance(path), the store is
\* constructed at most once, every call that returns returns that one store,
\* and the config file of the store is the path the first call resolved,
\* whatever path the later calls pass.
C16_OneStoreFirstPath ==
    [][op'.name = "instance" =>
          /\ init_runs' <= 1
          /\ op'.raised = "none" => config_file' = first_path']_vars

-----------------------------------------------------------------------------
(* Properties of the polling tick among the other operations, under Spec *)

\* the config file holds something the store has not read: it is newer than
\* the recorded timestamp
PendingExternalChange ==
    /\ instance = "ready"
    /\ last_config_changed # Unset
    /\ Exists(files[config_file])
    /\ FileIsNewer(last_config_changed, files[config_file])

\* the operations that call _writeConfig from the foreground
ForegroundSaves == {"saveSectionSettings", "setSettings"}

\* C17: what another process wrote to the config file after the last recorded
\* read or write stays there until a tick reloads it, whatever foreground
\* saveSectionSettings and setSettings calls come before that tick: no such
\* call replaces a file that is newer than the recorded timestamp (the tick
\* that follows then finds it newer, reloads it and emits the notification).
C17_ExternalChangeNotOverwritten ==
    [][(PendingExternalChange /\ op'.name \in ForegroundSaves) =>
          /\ files'[config_file] = files[config_file]
          /\ FileIsNewer(last_config_changed', files'[config_file])]_vars

\* the tick has nothing to read: the timestamp is that of the file or later
UpToDate(last, f) == last # Unset /\ Exists(f) /\ ~FileIsNewer(last, f)

\* the steps of the store and of the clock that neither read nor write a file
\* when the tick has nothing to read
QuietSteps == {"tick", "loadSectionSettings", "saveSectionSettings", "setSettings", "clock"}

\* C18: a write of the store that succeeds (the write-back of __init__,
\* saveSectionSettings, setSettings) leaves the timestamp at the modification
\* time of the file it wrote; as long as no other process touches the file and
\* the path is not changed, the timestamp stays there, and a tick then reads
\* nothing, changes nothing and emits nothing.
C18_OwnWritesDoNotNotify ==
    /\ [][op'.wrote = "ok" =>
              /\ last_config_changed' = files'[config_file'].mtime
              /\ UpToDate(last_config_changed', files'[config_file'])]_vars
    /\ [][(UpToDate(last_config_changed, files[config_file]) /\ op'.name \in QuietSteps) =>
              UpToDate(last_config_changed', files'[config_file'])]_vars
    /\ [][(op'.name = "tick" /\ UpToDate(last_config_changed, files[config_file])) =>
              /\ ~op'.emitted
              /\ op'.raised = "none"
              /\ settings' = settings
              /\ last_config_changed' = last_config_changed]_vars
    /\ [][(op.wrote = "ok" /\ op'.name = "tick") =>
              (~op'.emitted /\ settings' = settings)]_vars

C18_Witness ==
    /\ op.name = "tick"
    /\ ~op.emitted
    /\ op.raised = "none"
    /\ FileHolds(files, config_file, settings, last_config_changed)
    /\ "A" \in DOMAIN settings
    /\ settings["A"] # EmptyDict
    /\ now > last_config_changed

\* C19: a tick that finds the config file missing or unreadable (deleted by
\* another process, or never read nor written by __init__, so that no
\* timestamp was recorded) raises nothing, emits nothing and leaves the
\* document as it is.
C19_TickNeverRaises ==
    [][(op'.name = "tick" /\ files[config_file].kind \in {"absent", "unreadable"}) =>
          /\ op'.raised = "none"
          /\ ~op'.emitted
          /\ settings' = settings]_vars

-----------------------------------------------------------------------------
(* EthernetHub (gns3/modules/builtin/ethernet_hub.py): the port list and    *)
(* the settings of a hub under the callbacks of the server                  *)

HubPortNumbers == {0, 1, 2}

\* line 118: the name update() asks for, "Ethernet{}".format(port_number)
EthernetName(port_number) ==
    CASE port_number = 0 -> "Ethernet0"
      [] port_number = 1 -> "Ethernet1"
      [] port_number = 2 -> "Ethernet2"

HubNames == {"Hub1"}

\* lines 139-142 (and 91-94): EthernetPort(port_name) with adapter number 0,
\* the given port number and status started; a new port has no link
NewPort(port_name, port_number) ==
    [name |-> port_name, port_number |-> port_number, adapter_number |-> 0,
     status |-> "started", free |-> TRUE]

\* the elements of a sequence
Range(seq) == {seq[i] : i \in DOMAIN seq}

\* the entries of result["ports"]: the names update() asks for, and another
\* name for port 0
PortInfos ==
    {[name |-> EthernetName(n), port_number |-> n] : n \in HubPortNumbers}
    \cup {[name |-> "uplink", port_number |-> 0]}

\* the ports lists of the server: it lists a port number once
PortLists ==
    {l \in UNION {[1..n -> PortInfos] : n \in 0..MaxResponsePorts} :
        \A i, j \in DOMAIN l : l[i].port_number = l[j].port_number => i = j}

\* the responses of the server to a request that went through
Results ==
    {[ports |-> l] : l \in PortLists}
    \cup {[ports |-> l, name |-> n] : l \in PortLists \cap [1..1 -> PortInfos], n \in HubNames}
    \cup {[name |-> n] : n \in HubNames}

\* the response of the server to a request it refused
ErrorResults == {[message |-> "refused"]}

\* a callback and its outcome: result is the response it went through (Absent
\* when it returned before looking at it), ret what it returned, emitted the
\* signals it emitted
HubOutcome(name, result, error, ret, emitted) ==
    [name |-> name, result |-> result, error |-> error, ret |-> ret, emitted |-> emitted]

\* _updatePort that never looks for the port and always creates one
UpdatePortAlwaysCreates(ports, port_name, port_number) ==
    Append(ports, NewPort(port_name, port_number))

\* _updatePort(port_name, port_number) (lines 129-144) on the port list
_updatePort(ports, port_name, port_number) ==
    LET found == {i \in DOMAIN ports : ports[i].port_number = port_number}
    IN  IF found # {}
        THEN LET first == CHOOSE i \in found : \A j \in found : i <= j
             IN  [ports EXCEPT ![first].name = port_name]
        ELSE Append(ports, NewPort(port_name, port_number))

RECURSIVE UpdatePorts(_, _)
\* lines 164-166: _updatePort for each entry of result["ports"], in order
UpdatePorts(ports, infos) ==
    IF infos = << >> THEN ports
    ELSE UpdatePorts(_updatePort(ports, Head(infos).name, Head(infos).port_number), Tail(infos))

\* lines 162-166: updated_port_list, the port numbers of the response in order
UpdatedPortList(infos) == [i \in DOMAIN infos |-> infos[i].port_number]

\* line 170: the port is free and its number is not in the response
ToDelete(port, updated_port_list) ==
    port.free /\ port.port_number \notin Range(updated_port_list)

\* lines 169-172: the free ports the response does not list are removed
DeletePorts(ports, updated_port_list) ==
    SelectSeq(ports, LAMBDA port : ~ToDelete(port, updated_port_list))

\* _setupCallback(result) (lines 78-104); base is what Node._setupCallback
\* returned, loading is self._loading
SetupCallback(result, base, loading) ==
    /\ hub_op.name = "none"
    /\ IF ~base
       THEN /\ hub_op' = HubOutcome("_setupCallback", Absent, FALSE, Absent, {})
            /\ UNCHANGED hub_ports
       ELSE /\ hub_ports' = IF "ports" \in DOMAIN result
                            THEN hub_ports \o [i \in DOMAIN result.ports |->
                                     NewPort(result.ports[i].name, result.ports[i].port_number)]
                            ELSE hub_ports
            /\ hub_op' = HubOutcome("_setupCallback", result, FALSE, Absent,
                                    IF loading THEN {"loaded_signal"} ELSE {"created_signal"})
    /\ UNCHANGED <<hub_settings, storeVars, migVars, writeVars, rt_before, callVars>>

\* updateCallback(result, error) (lines 146-179); base is what
\* Node.updateCallback returned
UpdateCallback(result, error, base) ==
    /\ hub_op.name # "none"
    /\ IF ~base
       THEN /\ hub_op' = HubOutcome("updateCallback", Absent, error, Scalar(FALSE), {})
            /\ UNCHANGED <<hub_ports, hub_settings>>
       ELSE IF error
       THEN /\ hub_op' = HubOutcome("updateCallback", result, error, Absent, {"server_error_signal"})
            /\ UNCHANGED <<hub_ports, hub_settings>>
       ELSE LET updated_port_list == UpdatedPortList(result.ports)
                settings1 == IF "ports" \in DOMAIN result
                             THEN [hub_settings EXCEPT !.ports = updated_port_list]
                             ELSE hub_settings
            IN  /\ hub_ports' = IF "ports" \in DOMAIN result
                                THEN DeletePorts(UpdatePorts(hub_ports, result.ports),
                                                 updated_port_list)
                                ELSE hub_ports
                /\ hub_settings' = IF "name" \in DOMAIN result
                                   THEN [settings1 EXCEPT !.name = result.name]
                                   ELSE settings1
                /\ hub_op' = HubOutcome("updateCallback", result, error, Absent, {"updated_signal"})
    /\ UNCHANGED <<storeVars, migVars, writeVars, rt_before, callVars>>

\* a link is attached to the port at position i: the port is no longer free
AddLink(i) ==
    /\ i \in DOMAIN hub_ports
    /\ hub_ports[i].free
    /\ hub_ports' = [hub_ports EXCEPT ![i].free = FALSE]
    /\ hub_op' = HubOutcome("addLink", Absent, FALSE, Absent, {})
    /\ UNCHANGED <<hub_settings, storeVars, migVars, writeVars, rt_before, callVars>>

\* the link of the port at position i is deleted: the port is free again
DeleteLink(i) ==
    /\ i \in DOMAIN hub_ports
    /\ ~hub_ports[i].free
    /\ hub_ports' = [hub_ports EXCEPT ![i].free = TRUE]
    /\ hub_op' = HubOutcome("deleteLink", Absent, FALSE, Absent, {})
    /\ UNCHANGED <<hub_settings, storeVars, migVars, writeVars, rt_before, callVars>>

UpdateNames == HubNames \cup {"Hub2"}

\* the port numbers of new_settings["ports"]: integers, or the text of one
UpdatePortValues == {[int |-> n] : n \in HubPortNumbers} \cup {[str |-> "2"]}

\* line 117: int(port_number)
PyInt(port_number) ==
    IF "int" \in DOMAIN port_number THEN port_number.int
    ELSE CASE port_number.str = "2" -> 2

\* line 118: "Ethernet{}".format(port_number)
FormatEthernet(port_number) ==
    IF "int" \in DOMAIN port_number THEN EthernetName(port_number.int)
    ELSE CASE port_number.str = "2" -> "Ethernet2"

\* the lists of port numbers of new_settings["ports"]
UpdatePortLists == UNION {[1..n -> UpdatePortValues] : n \in 0..MaxUpdatePorts}

\* the settings dictionaries given to update(): a name, a ports list, both or
\* none
NewSettings ==
    {EmptyDict}
    \cup {[name |-> n] : n \in UpdateNames}
    \cup {[ports |-> l] : l \in UpdatePortLists}
    \cup {[name |-> n, ports |-> l] : n \in UpdateNames, l \in UpdatePortLists}

\* lines 113-118: params after the ports of new_settings have been converted
PortParams(new_settings) ==
    IF "ports" \in DOMAIN new_settings
    THEN [ports |-> [i \in DOMAIN new_settings.ports |->
                        [port_number |-> PyInt(new_settings.ports[i]),
                         name |-> FormatEthernet(new_settings.ports[i])]]]
    ELSE EmptyDict

\* line 120: new_settings has a name and it is not the name of the hub
NameDiffers(new_settings, name) ==
    "name" \in DOMAIN new_settings /\ new_settings.name # name

\* a clash that is only looked for when no port is to be changed
NameClashWithoutPorts(new_settings, name, allocated) ==
    NameDiffers(new_settings, name) /\ allocated /\ "ports" \notin DOMAIN new_settings

\* lines 120-121: the new name differs and hasAllocatedName(new name) is true
NameClash(new_settings, name, allocated) ==
    NameDiffers(new_settings, name) /\ allocated

\* line 124: params["name"] = new_settings["name"]
WithName(params, name) ==
    [k \in DOMAIN params \cup {"name"} |-> IF k = "name" THEN name ELSE params[k]]

\* lines 113-124 when update() goes on to line 126: the parameters it built
UpdateParams(new_settings, name) ==
    IF NameDiffers(new_settings, name)
    THEN WithName(PortParams(new_settings), new_settings.name)
    ELSE PortParams(new_settings)

\* update(new_settings) (lines 106-127); allocated is what
\* hasAllocatedName(new_settings["name"]) returns when line 121 calls it.
\* request is the params given to _update, Absent when it is not called.
update(new_settings, allocated) ==
    /\ hub_op.name # "none"
    /\ IF NameClash(new_settings, hub_settings.name, allocated)
       THEN hub_op' = [name |-> "update", arg |-> new_settings, allocated |-> allocated,
                       request |-> Absent, emitted |-> {"error_signal"}]
       ELSE LET params == UpdateParams(new_settings, hub_settings.name)
            IN  hub_op' = [name |-> "update", arg |-> new_settings, allocated |-> allocated,
                           request |-> IF params # EmptyDict THEN params ELSE Absent,
                           emitted |-> {}]
    /\ UNCHANGED <<hub_ports, hub_settings, storeVars, migVars, writeVars, rt_before, callVars>>

\* a hub right after EthernetHub.__init__; the settings store plays no part
InitHub ==
    /\ HubIdle
    /\ StoreIdle
    /\ mig_doc = EmptyDict
    /\ mig_in = EmptyDict
    /\ mig_runs = 0
    /\ mig_raised = "none"
    /\ WriteIdle
    /\ CallsIdle

NextHub ==
    \/ \E result \in Results, loading \in BOOLEAN : SetupCallback(result, TRUE, loading)
    \/ \E result \in ErrorResults : SetupCallback(result, FALSE, FALSE)
    \/ \E result \in Results : UpdateCallback(result, FALSE, TRUE)
    \/ \E result \in ErrorResults, base \in BOOLEAN : UpdateCallback(result, TRUE, base)
    \/ \E i \in 1..Cardinality(HubPortNumbers) : AddLink(i)
    \/ \E i \in 1..Cardinality(HubPortNumbers) : DeleteLink(i)

SpecHub == InitHub /\ [][NextHub]_vars

\* the callback went past its checks and found a ports list in the response
ProcessedPorts(o) ==
    /\ o.name = "updateCallback"
    /\ ~o.error
    /\ "updated_signal" \in o.emitted
    /\ "ports" \in DOMAIN o.result

\* the positions of the ports with this number
PortsNumbered(ports, n) == {i \in DOMAIN ports : ports[i].port_number = n}

\* C20: after updateCallback has processed a successful response with a ports
\* list, every port number of the response has a port with the name of the
\* response, and as many ports as before if it had any (the existing port is
\* renamed), else one; no free port has a number the response does not list;
\* the ports that have a link are all still there, in their order; and
\* settings["ports"] is the list of the port numbers of the response, in order.
C20_PortsFollowResponse ==
    [][ProcessedPorts(hub_op') =>
          LET infos == hub_op'.result.ports
              numbers == {infos[i].port_number : i \in DOMAIN infos}
              linked(ports) == SelectSeq(ports, LAMBDA port : ~port.free)
              unnamed(ports) == [i \in DOMAIN ports |-> [ports[i] EXCEPT !.name = "-"]]
          IN  /\ \A i \in DOMAIN infos :
                    /\ \E j \in DOMAIN hub_ports' :
                          /\ hub_ports'[j].port_number = infos[i].port_number
                          /\ hub_ports'[j].name = infos[i].name
                    /\ Cardinality(PortsNumbered(hub_ports', infos[i].port_number)) =
                          IF PortsNumbered(hub_ports, infos[i].port_number) = {}
                          THEN 1
                          ELSE Cardinality(PortsNumbered(hub_ports, infos[i].port_number))
              /\ \A j \in DOMAIN hub_ports' :
                    hub_ports'[j].free => hub_ports'[j].port_number \in numbers
              /\ unnamed(linked(hub_ports')) = unnamed(linked(hub_ports))
              /\ \A j \in DOMAIN hub_ports :
                    (~hub_ports[j].free /\ hub_ports[j].port_number \notin numbers) =>
                        \E k \in DOMAIN hub_ports' : hub_ports'[k] = hub_ports[j]
              /\ hub_settings'.ports = [i \in DOMAIN infos |-> infos[i].port_number]]_vars

C20_Witness ==
    /\ ProcessedPorts(hub_op)
    /\ Len(hub_op.result.ports) = 2
    /\ \E j \in DOMAIN hub_ports :
          ~hub_ports[j].free /\ hub_ports[j].port_number \notin Range(hub_settings.ports)
    /\ \E j \in DOMAIN hub_ports :
          /\ ~hub_ports[j].free
          /\ hub_ports[j].port_number = hub_op.result.ports[1].port_number
          /\ hub_ports[j].name = "uplink"
    /\ \E j \in DOMAIN hub_ports : hub_ports[j].free

-----------------------------------------------------------------------------
(* EthernetHub.update() on a hub the server has answered: the callbacks     *)
(* bring the hub to its names and port lists, update() is called in between *)

\* the responses that bring the hub to the states update() is called in: they
\* name the hub, or list one port, or both
UpdateResults == {result \in Results :
                     "ports" \in DOMAIN result => result.ports \in [1..1 -> PortInfos]}

NextUpdate ==
    \/ \E result \in UpdateResults, loading \in BOOLEAN : SetupCallback(result, TRUE, loading)
    \/ \E result \in UpdateResults : UpdateCallback(result, FALSE, TRUE)
    \/ \E new_settings \in NewSettings, allocated \in BOOLEAN : update(new_settings, allocated)

SpecUpdate == InitHub /\ [][NextUpdate]_vars

\* C21: update(new_settings) with a name that is not the name of the hub and
\* that is already allocated emits the error signal, gives no request to
\* _update (whether or not new_settings has a ports list), and leaves the
\* settings and the port list of the hub as they were; and update() with no
\* ports key and no name other than the name of the hub gives no request
\* either.
C21_NameClashSendsNothing ==
    [][hub_op'.name = "update" =>
          LET new_settings == hub_op'.arg
              differs == /\ "name" \in DOMAIN new_settings
                         /\ new_settings.name # hub_settings.name
          IN  /\ (differs /\ hub_op'.allocated) =>
                    /\ hub_op'.emitted = {"error_signal"}
                    /\ hub_op'.request = Absent
                    /\ hub_settings' = hub_settings
                    /\ hub_ports' = hub_ports
              /\ ("ports" \notin DOMAIN new_settings /\ ~differs) =>
                    hub_op'.request = Absent]_vars

\* a hub named Hub1 that has a port was asked for the allocated name Hub2 and
\* for another port list, and has emitted the error signal
C21_Witness ==
    /\ hub_op.name = "update"
    /\ hub_settings.name = "Hub1"
    /\ hub_ports # << >>
    /\ DOMAIN hub_op.arg = {"name", "ports"}
    /\ hub_op.arg.name = "Hub2"
    /\ hub_op.arg.ports # << >>
    /\ hub_op.allocated
    /\ hub_op.emitted = {"error_signal"}
    /\ hub_op.request = Absent

====
